---- MODULE Spec2Model ----
(***************************************************************************)
(* A model of the chained hash map of src/hashmap.c (CMap): the bucket     *)
(* array, the heap of entry nodes (next link, key, value packed in one     *)
(* allocation), and the operations cmap_put, cmap_remove, cmap_get,        *)
(* cmap_count, cmap_first, cmap_next and cmap_dispose with the helpers     *)
(* they call (hash, findKey, createNode, checkForRehash).                  *)
(*                                                                         *)
(* Pointers are modelled as they are used in the source.  A node pointer   *)
(* (void* ) is a node id, NULL is 0.  A link pointer (void** ) is a slot:  *)
(* either the address of a bucket of the bucket array or the address of a  *)
(* node, whose first word is that node's next link.                        *)
(***************************************************************************)
EXTENDS Integers, Sequences, FiniteSets, TLC

(* ------------------------------ bounds --------------------------------- *)

\* number of cmap_put and cmap_remove calls a client makes on one map
MaxCalls == 4

(* ----------------------------- constants ------------------------------- *)

NULL == 0

LOAD_FACTOR_NUM == 3

LOAD_FACTOR_DEN == 2

\* #define DEFAULT_CAPACITY 199
DEFAULT_CAPACITY == 199

\* 2630849305 = 0x9CCF9319 as an unsigned long, least significant byte first
MULTIPLIER == <<25, 147, 207, 156, 0, 0, 0, 0>>

\* the keys clients use, as NUL-terminated strings without the NUL:
\* "a", "e", "b", "ab"
Keys == { <<97>>, <<101>>, <<98>>, <<97, 98>> }

\* the values clients store (the bytes at addr)
Vals == {1, 2}

\* the capacity_hint arguments given to cmap_create
CapacityHints == {1, 2}

\* node addresses: a call allocates at most one node
NodeIds == 1..MaxCalls

\* what the dangling read of nextNode in checkForRehash can yield
UBOutcomes == {"kept", "null"}

\* the traversals a client runs at the same time
Traversals == {1, 2}

\* the numbers of the scenario's sequentially numbered keys
ScenarioIndices == 0..19

\* sprintf(key, "%d", i) for a number below 100
ScenarioKeyOf(i) ==
    IF i < 10 THEN <<48 + i>> ELSE <<48 + (i \div 10), 48 + (i % 10)>>

\* the keys "0" .. "19"
ScenarioKeys == { ScenarioKeyOf(i) : i \in ScenarioIndices }

\* node addresses of the scenario: one node per key
ScenarioNodeIds == 1..Cardinality(ScenarioIndices)

\* the strings hash is called with, each char as the int s[i] is promoted
\* to: "", "a", "abc", "zzzz", "~~~~~~~~", and strings with the bytes 0x80,
\* 0xFF and 0xC3 0xA9, which are negative where char is signed and 128 or
\* more where it is not
HashStrings ==
    { <<>>, <<97>>, <<97, 98, 99>>, <<122, 122, 122, 122>>,
      <<126, 126, 126, 126, 126, 126, 126, 126>>,
      <<-128>>, <<-1, -1, -1>>, <<-61, -87, 97>>,
      <<128>>, <<255, 255, 255>>, <<195, 169, 97>> }

\* the bucket counts hash is called with
HashCounts == (1..12) \cup {199, 65536, 1000003}

(* ------------------------------- hash ---------------------------------- *)

\* sum of a[j] * b[k - j] for j in i..k, limbs indexed from 0
RECURSIVE ColSum(_, _, _, _)
ColSum(a, b, k, i) ==
    IF i > k THEN 0
    ELSE a[i + 1] * b[k - i + 1] + ColSum(a, b, k, i + 1)

\* limbs k..7 of (a * b + carry-in) modulo 2^64, a and b as 8 bytes
RECURSIVE MulLimbs(_, _, _, _)
MulLimbs(a, b, k, carry) ==
    IF k > 7 THEN <<>>
    ELSE LET t == ColSum(a, b, k, 0) + carry
         IN  <<t % 256>> \o MulLimbs(a, b, k + 1, t \div 256)

\* the residue modulo n of the low four bytes only
RECURSIVE ModLimbs_LowWord(_, _, _, _)
ModLimbs_LowWord(h, n, k, r) ==
    IF k < 1 THEN r
    ELSE ModLimbs_LowWord(h, n, k - 1,
                          IF k > 4 THEN 0 ELSE (r * 256 + h[k]) % n)

\* the unsigned long as a residue modulo n, from the most significant byte
RECURSIVE ModLimbs(_, _, _, _)
ModLimbs(h, n, k, r) ==
    IF k < 1 THEN r
    ELSE ModLimbs(h, n, k - 1, (r * 256 + h[k]) % n)

\* the loop of hash: hashcode = hashcode * MULTIPLIER + s[i].  A negative
\* s[i] is converted to unsigned long with the sum: the borrow runs through
\* the limbs (\div rounds down, % is never negative).  The value of each
\* iteration is bound before the next one starts.
RECURSIVE hashcode(_, _, _)
hashcode(s, i, h) ==
    IF i > Len(s) THEN h
    ELSE CHOOSE code \in
             { hashcode(s, i + 1, next) :
                 next \in { MulLimbs(h, MULTIPLIER, 0, s[i]) } } :
             TRUE

\* the value of hashcode when the loop of hash ends, for the keys in use
hashcodes ==
    [s \in Keys \cup ScenarioKeys \cup HashStrings |->
        hashcode(s, 1, <<0, 0, 0, 0, 0, 0, 0, 0>>)]

\* the bucket counts for which hashcode % nbuckets is tabulated
TabulatedCounts == 1..40

\* hashcode % nbuckets for the keys in use and the tabulated bucket counts
remainders ==
    [s \in Keys \cup ScenarioKeys \cup HashStrings |->
        [n \in TabulatedCounts |-> ModLimbs(hashcodes[s], n, 8, 0)]]

\* return hashcode % nbuckets
hash(s, nbuckets) ==
    IF nbuckets \in TabulatedCounts
    THEN remainders[s][nbuckets]
    ELSE ModLimbs(hashcodes[s], nbuckets, 8, 0)

(* ------------------------------- state --------------------------------- *)

VARIABLES
    numberOfBuckets,    \* cm->numberOfBuckets
    numberOfElements,   \* cm->numberOfElements
    buckets,            \* cm->buckets: 0..numberOfBuckets-1 -> node or NULL
    heap,               \* node address -> the node stored there
    shadow,             \* key -> value of its last put, NULL once removed
    last,               \* the call that produced this state
    calls,              \* number of cmap_put and cmap_remove calls so far
    cursor,             \* traversal -> how many keys it was given, and the last
    run                 \* the cmap_create call of this run, and how the run ended

vars == <<numberOfBuckets, numberOfElements, buckets, heap, shadow, last,
          calls, cursor, run>>

\* the fields of struct CMapImplementation and the nodes they point to
cm == <<numberOfBuckets, numberOfElements, buckets, heap>>

\* a heap cell no allocation owns
FreeCell == [live |-> FALSE, next |-> NULL, key |-> <<>>, value |-> NULL]

\* the types of the fields of struct CMapImplementation and of the nodes
TypeOK ==
    /\ numberOfBuckets \in Nat
    /\ last.op \notin {"start", "hash"} /\ run.ended = "no"
          => numberOfBuckets > 0
    /\ numberOfElements \in Nat
    /\ DOMAIN buckets = 0..(numberOfBuckets - 1)
    /\ DOMAIN heap \in {NodeIds, ScenarioNodeIds}
    /\ \A x \in DOMAIN buckets : buckets[x] \in DOMAIN heap \cup {NULL}
    /\ \A n \in DOMAIN heap :
          /\ heap[n].live \in BOOLEAN
          /\ heap[n].next \in DOMAIN heap \cup {NULL}
          /\ heap[n].live => /\ heap[n].key \in Keys \cup ScenarioKeys
                             /\ heap[n].value \in Nat
    /\ \A i \in Traversals :
          /\ cursor[i].given \in Nat
          /\ cursor[i].token \in DOMAIN heap \cup {NULL}

\* link pointers
BucketSlot(i) == [kind |-> "bucket", at |-> i]

NodeSlot(n) == [kind |-> "node", at |-> n]

NullSlot == [kind |-> "null", at |-> 0]

\* *p for a link pointer p
Deref(bk, hp, p) ==
    IF p.kind = "bucket" THEN bk[p.at] ELSE hp[p.at].next

\* *p = n for a link pointer p
Store(bk, hp, p, n) ==
    IF p.kind = "bucket"
    THEN [buckets |-> [bk EXCEPT ![p.at] = n], heap |-> hp]
    ELSE [buckets |-> bk, heap |-> [hp EXCEPT ![p.at].next = n]]

getBucketAtIndex(index) == BucketSlot(index)

getKeyFromNode(hp, node) == hp[node].key

getValueFromNode(hp, node) == hp[node].value

(* ------------------------------ findKey -------------------------------- *)

\* findKeyLoop without the strcmp: the walk always runs to the chain's end
RECURSIVE findKeyLoop_NoCompare(_, _, _, _, _)
findKeyLoop_NoCompare(bk, hp, key, prevKeyBucket, keyBucket) ==
    IF Deref(bk, hp, keyBucket) = NULL
    THEN [keyBucket |-> keyBucket, prevKeyBucket |-> prevKeyBucket,
          foundKey |-> 0]
    ELSE findKeyLoop_NoCompare(bk, hp, key, keyBucket,
                               NodeSlot(Deref(bk, hp, keyBucket)))

\* the while loop of findKey
RECURSIVE findKeyLoop(_, _, _, _, _)
findKeyLoop(bk, hp, key, prevKeyBucket, keyBucket) ==
    IF Deref(bk, hp, keyBucket) = NULL
    THEN [keyBucket |-> keyBucket, prevKeyBucket |-> prevKeyBucket,
          foundKey |-> 0]
    ELSE IF getKeyFromNode(hp, Deref(bk, hp, keyBucket)) = key
    THEN [keyBucket |-> keyBucket, prevKeyBucket |-> prevKeyBucket,
          foundKey |-> 1]
    ELSE findKeyLoop(bk, hp, key, keyBucket,
                     NodeSlot(Deref(bk, hp, keyBucket)))

\* findKey returns keyBucket, or prevKeyBucket when returnPrevFind is set,
\* and sets *foundKey; the record carries both pointers and the flag
findKey(bk, hp, nb, key) ==
    findKeyLoop(bk, hp, key, NullSlot, getBucketAtIndex(hash(key, nb)))

(* ----------------------------- createNode ------------------------------ *)

\* malloc: an address no live allocation owns
malloc(hp) == CHOOSE n \in DOMAIN hp :
                  /\ ~hp[n].live
                  /\ \A m \in DOMAIN hp : ~hp[m].live => n <= m

free(hp, n) == [hp EXCEPT ![n] = FreeCell]

\* the node createNode builds: next NULL, a copy of key, a copy of *addr
createNode(key, addr) ==
    [live |-> TRUE, next |-> NULL, key |-> key, value |-> addr]

(* --------------------------- checkForRehash ---------------------------- *)

\* the value the loop condition reads through tempBucket once tempBucket is
\* &nextNode: nextNode is declared in the loop body, so its lifetime has
\* ended when the condition is evaluated.  The read yields the pointer that
\* was stored when the stack slot survives ("kept") and an indeterminate
\* value otherwise, of which the model keeps NULL ("null"): the walk of
\* the old chain then stops after its first node.  A call that does not
\* return produces no state and is not modelled.
ReadNextNode(nextNode, ub) ==
    IF ub = "kept" THEN nextNode ELSE NULL

\* the while loop placing each node by its hash over the old bucket count
RECURSIVE rehashWhile_OldCount(_, _, _, _, _)
rehashWhile_OldCount(node, bk, hp, nb, ub) ==
    IF node = NULL THEN [buckets |-> bk, heap |-> hp]
    ELSE LET nodePlacement == findKey(bk, hp, (nb - 1) \div 3,
                                      getKeyFromNode(hp, node)).keyBucket
             placed   == Store(bk, hp, nodePlacement, node)
             nextNode == placed.heap[node].next
             cut      == [placed.heap EXCEPT ![node].next = NULL]
         IN  rehashWhile_OldCount(ReadNextNode(nextNode, ub),
                                  placed.buckets, cut, nb, ub)

\* the while loop without the memcpy of the NULL pointer over the next
\* link of the node it has placed
RECURSIVE rehashWhile_NoCut(_, _, _, _, _)
rehashWhile_NoCut(node, bk, hp, nb, ub) ==
    IF node = NULL THEN [buckets |-> bk, heap |-> hp]
    ELSE LET nodePlacement == findKey(bk, hp, nb,
                                      getKeyFromNode(hp, node)).keyBucket
             placed   == Store(bk, hp, nodePlacement, node)
             nextNode == hp[node].next
         IN  rehashWhile_NoCut(ReadNextNode(nextNode, ub), placed.buckets,
                               [placed.heap EXCEPT ![node].next = nextNode],
                               nb, ub)

\* the while loop over one old chain; node is *tempBucket
RECURSIVE rehashWhile(_, _, _, _, _)
rehashWhile(node, bk, hp, nb, ub) ==
    IF node = NULL THEN [buckets |-> bk, heap |-> hp]
    ELSE LET nodePlacement == findKey(bk, hp, nb,
                                      getKeyFromNode(hp, node)).keyBucket
             placed   == Store(bk, hp, nodePlacement, node)
             nextNode == placed.heap[node].next
             cut      == [placed.heap EXCEPT ![node].next = NULL]
         IN  rehashWhile(ReadNextNode(nextNode, ub),
                         placed.buckets, cut, nb, ub)

\* the for loop over the old buckets: the new buckets bk and the heap hp
\* once its iterations for the old buckets 0..x-1 have run.  The iteration
\* for bucket x-1 starts from the result of the ones before it, which is
\* bound as a value first.
RECURSIVE rehashFor(_, _, _, _, _, _)
rehashFor(x, oldBuckets, bk, hp, nb, ub) ==
    IF x = 0 THEN [buckets |-> bk, heap |-> hp]
    ELSE CHOOSE after \in
             { rehashWhile(oldBuckets[x - 1], before.buckets, before.heap,
                           nb, ub) :
                 before \in { rehashFor(x - 1, oldBuckets, bk, hp, nb, ub) } } :
             TRUE

\* LoadExceeded with >= in place of >: a load of exactly 1.5 rehashes
LoadExceeded_AtThreshold(ne, nb) ==
    LOAD_FACTOR_DEN * ne >= LOAD_FACTOR_NUM * nb

\* the test of checkForRehash with a load factor of 2
LoadExceeded_Late(ne, nb) == ne > 2 * nb

\* (double)numberOfElements / numberOfBuckets > LOAD_FACTOR, with 1.5 = 3/2
LoadExceeded(ne, nb) == LOAD_FACTOR_DEN * ne > LOAD_FACTOR_NUM * nb

\* NewNumberOfBuckets without the + 1
NewNumberOfBuckets_Triple(nb) == nb * 3

NewNumberOfBuckets(nb) == nb * 3 + 1

checkForRehash(bk, hp, nb, ne, ub) ==
    IF LoadExceeded(ne, nb)
    THEN LET newNum     == NewNumberOfBuckets(nb)
             newBuckets == [x \in 0..(newNum - 1) |-> NULL]
             moved      == rehashFor(nb, bk, newBuckets, hp, newNum, ub)
         IN  [buckets |-> moved.buckets, heap |-> moved.heap,
              numberOfBuckets |-> newNum]
    ELSE [buckets |-> bk, heap |-> hp, numberOfBuckets |-> nb]

(* ------------------------------ cmap_put ------------------------------- *)

\* putNode with the cleanup call after the memcpy instead of before it
putNode_CleanAfterCopy(bk, hp, nb, ne, key, addr) ==
    LET nodePointer == findKey(bk, hp, nb, key).keyBucket
        found       == Deref(bk, hp, nodePointer)
    IN  IF found # NULL
        THEN [buckets |-> bk,
              heap |-> [hp EXCEPT ![found].value = addr],
              numberOfElements |-> ne,
              cleaned |-> <<addr>>]
        ELSE LET node   == malloc(hp)
                 made   == [hp EXCEPT ![node] = createNode(key, addr)]
                 linked == Store(bk, made, nodePointer, node)
             IN  [buckets |-> linked.buckets,
                  heap |-> linked.heap,
                  numberOfElements |-> ne + 1,
                  cleaned |-> <<>>]

\* putNode with numberOfElements++ on the overwrite path as well
putNode_CountsOverwrite(bk, hp, nb, ne, key, addr) ==
    LET nodePointer == findKey(bk, hp, nb, key).keyBucket
        found       == Deref(bk, hp, nodePointer)
    IN  IF found # NULL
        THEN [buckets |-> bk,
              heap |-> [hp EXCEPT ![found].value = addr],
              numberOfElements |-> ne + 1,
              cleaned |-> <<getValueFromNode(hp, found)>>]
        ELSE LET node   == malloc(hp)
                 made   == [hp EXCEPT ![node] = createNode(key, addr)]
                 linked == Store(bk, made, nodePointer, node)
             IN  [buckets |-> linked.buckets,
                  heap |-> linked.heap,
                  numberOfElements |-> ne + 1,
                  cleaned |-> <<>>]

\* putNode without numberOfElements++ for a new node
putNode_NoCount(bk, hp, nb, ne, key, addr) ==
    LET nodePointer == findKey(bk, hp, nb, key).keyBucket
        found       == Deref(bk, hp, nodePointer)
    IN  IF found # NULL
        THEN [buckets |-> bk,
              heap |-> [hp EXCEPT ![found].value = addr],
              numberOfElements |-> ne,
              cleaned |-> <<getValueFromNode(hp, found)>>]
        ELSE LET node   == malloc(hp)
                 made   == [hp EXCEPT ![node] = createNode(key, addr)]
                 linked == Store(bk, made, nodePointer, node)
             IN  [buckets |-> linked.buckets,
                  heap |-> linked.heap,
                  numberOfElements |-> ne,
                  cleaned |-> <<>>]

\* the body of cmap_put before checkForRehash
putNode(bk, hp, nb, ne, key, addr) ==
    LET nodePointer == findKey(bk, hp, nb, key).keyBucket
        found       == Deref(bk, hp, nodePointer)
    IN  IF found # NULL
        THEN [buckets |-> bk,
              heap |-> [hp EXCEPT ![found].value = addr],
              numberOfElements |-> ne,
              cleaned |-> <<getValueFromNode(hp, found)>>]
        ELSE LET node   == malloc(hp)
                 made   == [hp EXCEPT ![node] = createNode(key, addr)]
                 linked == Store(bk, made, nodePointer, node)
             IN  [buckets |-> linked.buckets,
                  heap |-> linked.heap,
                  numberOfElements |-> ne + 1,
                  cleaned |-> <<>>]

cmap_put(bk, hp, nb, ne, key, addr, ub) ==
    LET put  == putNode(bk, hp, nb, ne, key, addr)
        grow == checkForRehash(put.buckets, put.heap, nb,
                               put.numberOfElements, ub)
    IN  [buckets |-> grow.buckets, heap |-> grow.heap,
         numberOfBuckets |-> grow.numberOfBuckets,
         numberOfElements |-> put.numberOfElements,
         cleaned |-> put.cleaned]

(* ------------------------------ cmap_get ------------------------------- *)

\* the node whose value cmap_get returns a pointer to, or NULL
cmap_get(bk, hp, nb, key) ==
    LET r == findKey(bk, hp, nb, key)
    IN  IF r.foundKey = 1 THEN Deref(bk, hp, r.keyBucket) ELSE NULL

(* ----------------------------- cmap_remove ----------------------------- *)

\* removeHead reading the next link of the head after free(*bucketPointer),
\* from the cell the allocator has taken back
removeHead_ReadAfterFree(bk, hp, nb, key) ==
    LET keyHash          == hash(key, nb)
        bucketPointer    == getBucketAtIndex(keyHash)
        head             == Deref(bk, hp, bucketPointer)
        toReplacePointer == free(hp, head)[head].next
    IN  [buckets |-> Store(bk, free(hp, head), bucketPointer,
                           toReplacePointer).buckets,
         heap |-> free(hp, head),
         cleaned |-> <<getValueFromNode(hp, head)>>]

\* the branch of cmap_remove for the element at index 0 of the bucket
removeHead(bk, hp, nb, key) ==
    LET keyHash          == hash(key, nb)
        bucketPointer    == getBucketAtIndex(keyHash)
        head             == Deref(bk, hp, bucketPointer)
        toReplacePointer == hp[head].next
    IN  [buckets |-> Store(bk, free(hp, head), bucketPointer,
                           toReplacePointer).buckets,
         heap |-> free(hp, head),
         cleaned |-> <<getValueFromNode(hp, head)>>]

\* removeInner with the cleanup call on toRemovePointer's own value
removeInner_CleanPrev(bk, hp, prevNodePointer) ==
    LET toRemovePointer == Deref(bk, hp, prevNodePointer)
        spliced == Store(bk, hp, prevNodePointer,
                         hp[hp[toRemovePointer].next].next)
        freed   == spliced.heap[toRemovePointer].next
    IN  [buckets |-> spliced.buckets,
         heap |-> free(spliced.heap, freed),
         cleaned |-> <<getValueFromNode(spliced.heap, toRemovePointer)>>]

\* the branch of cmap_remove for an element that is not at index 0
removeInner(bk, hp, prevNodePointer) ==
    LET toRemovePointer == Deref(bk, hp, prevNodePointer)
        spliced == Store(bk, hp, prevNodePointer,
                         hp[hp[toRemovePointer].next].next)
        freed   == spliced.heap[toRemovePointer].next
    IN  [buckets |-> spliced.buckets,
         heap |-> free(spliced.heap, freed),
         cleaned |-> <<getValueFromNode(spliced.heap, freed)>>]

\* cmap_remove with numberOfElements-- outside the if(foundKey)
cmap_remove_AlwaysDecrement(bk, hp, nb, ne, key) ==
    LET r == findKey(bk, hp, nb, key)
        prevNodePointer == r.prevKeyBucket
    IN  IF r.foundKey = 1
        THEN LET gone == IF prevNodePointer = NullSlot
                         THEN removeHead(bk, hp, nb, key)
                         ELSE removeInner(bk, hp, prevNodePointer)
             IN  [buckets |-> gone.buckets, heap |-> gone.heap,
                  numberOfElements |-> ne - 1, cleaned |-> gone.cleaned]
        ELSE [buckets |-> bk, heap |-> hp, numberOfElements |-> ne - 1,
              cleaned |-> <<>>]

cmap_remove(bk, hp, nb, ne, key) ==
    LET r == findKey(bk, hp, nb, key)
        prevNodePointer == r.prevKeyBucket
    IN  IF r.foundKey = 1
        THEN LET gone == IF prevNodePointer = NullSlot
                         THEN removeHead(bk, hp, nb, key)
                         ELSE removeInner(bk, hp, prevNodePointer)
             IN  [buckets |-> gone.buckets, heap |-> gone.heap,
                  numberOfElements |-> ne - 1, cleaned |-> gone.cleaned]
        ELSE [buckets |-> bk, heap |-> hp, numberOfElements |-> ne,
              cleaned |-> <<>>]

\* the node a link pointer points into: none for a bucket of the array
SlotNode(slot) == IF slot.kind = "node" THEN slot.at ELSE NULL

\* the accesses cmap_remove makes to nodes once findKey has returned, in the
\* order of its statements: which node is read, written or freed (NULL for
\* an access to the bucket array)
removeAccesses(bk, hp, nb, key) ==
    LET r == findKey(bk, hp, nb, key)
        prevNodePointer == r.prevKeyBucket
        head == Deref(bk, hp, getBucketAtIndex(hash(key, nb)))
        toRemovePointer == Deref(bk, hp, prevNodePointer)
        removed == hp[toRemovePointer].next
    IN  IF r.foundKey # 1 THEN <<>>
        ELSE IF prevNodePointer = NullSlot
        THEN <<[op |-> "read", node |-> head],
               [op |-> "read", node |-> head],
               [op |-> "free", node |-> head],
               [op |-> "write", node |-> NULL]>>
        ELSE <<[op |-> "read", node |-> SlotNode(prevNodePointer)],
               [op |-> "read", node |-> toRemovePointer],
               [op |-> "read", node |-> removed],
               [op |-> "write", node |-> SlotNode(prevNodePointer)],
               [op |-> "read", node |-> toRemovePointer],
               [op |-> "read", node |-> removed],
               [op |-> "read", node |-> toRemovePointer],
               [op |-> "free", node |-> removed]>>

(* ----------------------- cmap_count, iteration ------------------------- *)

cmap_count(ne) == ne

\* the first non-empty bucket at index x or above: its head node, or NULL
RECURSIVE scanBuckets(_, _, _)
scanBuckets(bk, nb, x) ==
    IF x >= nb THEN NULL
    ELSE IF bk[x] # NULL THEN bk[x]
    ELSE scanBuckets(bk, nb, x + 1)

\* cmap_first with its loop starting at bucket 1
cmap_first_FromSecond(bk, nb) == scanBuckets(bk, nb, 1)

\* the key pointers cmap_first and cmap_next return are node addresses: the
\* key sits at a fixed offset after the node's next link
cmap_first(bk, nb) == scanBuckets(bk, nb, 0)

\* cmap_next resuming from the key the map handed out last, as if the
\* position of the iteration were kept in the map and not in prevkey
cmap_next_SharedPosition(bk, hp, nb, prevkey) ==
    LET from == IF last.op \in {"first", "next"} /\ last.value # NULL
                THEN last.value ELSE prevkey
    IN  IF hp[from].next = NULL
        THEN LET bucketNumber == hash(getKeyFromNode(hp, from), nb)
             IN  IF bucketNumber >= nb - 1 THEN NULL
                 ELSE scanBuckets(bk, nb, bucketNumber + 1)
        ELSE hp[from].next

\* cmap_next searching on from prevkey's own bucket once its chain has ended
cmap_next_Rescan(bk, hp, nb, prevkey) ==
    IF hp[prevkey].next = NULL
    THEN scanBuckets(bk, nb, hash(getKeyFromNode(hp, prevkey), nb))
    ELSE hp[prevkey].next

cmap_next(bk, hp, nb, prevkey) ==
    IF hp[prevkey].next = NULL
    THEN LET bucketNumber == hash(getKeyFromNode(hp, prevkey), nb)
         IN  IF bucketNumber >= nb - 1 THEN NULL
             ELSE scanBuckets(bk, nb, bucketNumber + 1)
    ELSE hp[prevkey].next

\* for (key = cmap_first(m); key != NULL; key = cmap_next(m, key)): the keys
\* visited from token key on, at most fuel of them
RECURSIVE traverse(_, _, _, _, _)
traverse(bk, hp, nb, key, fuel) ==
    IF key = NULL \/ fuel = 0 THEN <<>>
    ELSE <<getKeyFromNode(hp, key)>>
         \o traverse(bk, hp, nb, cmap_next(bk, hp, nb, key), fuel - 1)

(* ----------------------------- cmap_create ----------------------------- *)

\* cmap_create with one bucket where the hint is 0
cmap_create_MinimalDefault(capacity_hint) ==
    LET capacity == IF capacity_hint = 0 THEN 1 ELSE capacity_hint
    IN  [numberOfBuckets |-> capacity,
         numberOfElements |-> 0,
         buckets |-> [x \in 0..(capacity - 1) |-> NULL]]

\* the map cmap_create builds once its arguments passed the assertions and
\* its allocations succeeded
cmap_create(capacity_hint) ==
    LET capacity == IF capacity_hint = 0 THEN DEFAULT_CAPACITY
                    ELSE capacity_hint
    IN  [numberOfBuckets |-> capacity,
         numberOfElements |-> 0,
         buckets |-> [x \in 0..(capacity - 1) |-> NULL]]

(* --------------------------- the state machine ------------------------- *)

\* a traversal that has not called cmap_first
Idle == [given |-> 0, token |-> NULL]

\* no traversal holds a key it could pass to cmap_next
NoTraversalInFlight == \A i \in Traversals : cursor[i].token = NULL

\* a run whose cmap_create(valuesz, capacity_hint, fn) returned a map
Running(valuesz, capacity_hint) ==
    [ended |-> "no", valuesz |-> valuesz, capacity_hint |-> capacity_hint,
     failed |-> "none"]

\* the map was created, has not been disposed of, and the process runs
Alive == last.op \notin {"start", "dispose"} /\ run.ended = "no"

Init ==
    \E capacity_hint \in CapacityHints :
        LET new == cmap_create(capacity_hint)
        IN  /\ numberOfBuckets = new.numberOfBuckets
            /\ numberOfElements = new.numberOfElements
            /\ buckets = new.buckets
            /\ heap = [n \in NodeIds |-> FreeCell]
            /\ shadow = [k \in Keys |-> NULL]
            /\ last = [op |-> "create", key |-> <<>>, value |-> NULL,
                       cleaned |-> <<>>]
            /\ calls = 0
            /\ cursor = [i \in Traversals |-> Idle]
            /\ run = Running(4, capacity_hint)

\* a call of cmap_put.  The client does not add entries in the midst of
\* iterating, and the tokens of finished traversals are dropped.
PutCall(key, addr, ub) ==
    /\ Alive
    /\ NoTraversalInFlight
    /\ calls' = calls + 1
    /\ LET new == cmap_put(buckets, heap, numberOfBuckets, numberOfElements,
                           key, addr, ub)
       IN  /\ numberOfBuckets' = new.numberOfBuckets
           /\ numberOfElements' = new.numberOfElements
           /\ buckets' = new.buckets
           /\ heap' = new.heap
           /\ last' = [op |-> "put", key |-> key, value |-> addr,
                       cleaned |-> new.cleaned]
    /\ shadow' = [shadow EXCEPT ![key] = addr]
    /\ cursor' = [i \in Traversals |-> Idle]
    /\ UNCHANGED run

\* a call of cmap_remove, under the same discipline of the client
RemoveCall(key) ==
    /\ Alive
    /\ NoTraversalInFlight
    /\ calls' = calls + 1
    /\ LET new == cmap_remove(buckets, heap, numberOfBuckets,
                              numberOfElements, key)
       IN  /\ numberOfElements' = new.numberOfElements
           /\ buckets' = new.buckets
           /\ heap' = new.heap
           /\ last' = [op |-> "remove", key |-> key, value |-> NULL,
                       cleaned |-> new.cleaned]
    /\ shadow' = [shadow EXCEPT ![key] = NULL]
    /\ cursor' = [i \in Traversals |-> Idle]
    /\ UNCHANGED <<numberOfBuckets, run>>

Put(key, addr, ub) == calls < MaxCalls /\ PutCall(key, addr, ub)

Remove(key) == calls < MaxCalls /\ RemoveCall(key)

Next ==
    \/ \E key \in Keys, addr \in Vals, ub \in UBOutcomes : Put(key, addr, ub)
    \/ \E key \in Keys : Remove(key)

Spec == Init /\ [][Next]_vars

\* the build in which the dangling read in checkForRehash always yields the
\* stored pointer
NextKept ==
    \/ \E key \in Keys, addr \in Vals : Put(key, addr, "kept")
    \/ \E key \in Keys : Remove(key)

SpecKept == Init /\ [][NextKept]_vars

(* ------------------------------ observers ------------------------------ *)

\* the value cmap_get(key) points to, NULL when cmap_get returns NULL
ValueOf(bk, hp, nb, key) ==
    LET node == cmap_get(bk, hp, nb, key)
    IN  IF node = NULL THEN NULL ELSE getValueFromNode(hp, node)

Stored(key) == ValueOf(buckets, heap, numberOfBuckets, key)

Present(key) == cmap_get(buckets, heap, numberOfBuckets, key) # NULL

\* the nodes met by following next links from node, at most fuel of them
RECURSIVE chainFrom(_, _, _)
chainFrom(hp, node, fuel) ==
    IF node = NULL \/ fuel = 0 THEN <<>>
    ELSE <<node>> \o chainFrom(hp, hp[node].next, fuel - 1)

\* the chains of buckets x..nb-1 one after the other
RECURSIVE chainsFrom(_, _, _, _)
chainsFrom(bk, hp, nb, x) ==
    IF x >= nb THEN <<>>
    ELSE chainFrom(hp, bk[x], MaxCalls + 1) \o chainsFrom(bk, hp, nb, x + 1)

\* every entry node met by walking every bucket's chain
AllEntries == chainsFrom(buckets, heap, numberOfBuckets, 0)

\* the keys a traversal by cmap_first and cmap_next produces, in order
Traversal ==
    traverse(buckets, heap, numberOfBuckets,
             cmap_first(buckets, numberOfBuckets), MaxCalls + 1)

Range(seq) == { seq[i] : i \in 1..Len(seq) }

\* the keys whose most recent put has not been followed by a remove
PutAndNotRemoved == { k \in Keys : shadow[k] # NULL }

(* ------------------ queries, traversals and disposal ------------------- *)

\* cmap_dispose: the nodes gathered in tempArray, the cleanup call on the
\* value of each, and the heap once each has been freed
cmap_dispose(bk, hp, nb) ==
    LET tempArray == chainsFrom(bk, hp, nb, 0)
    IN  [cleaned |-> [x \in 1..Len(tempArray) |->
                         getValueFromNode(hp, tempArray[x])],
         heap |-> [n \in DOMAIN hp |->
                      IF n \in Range(tempArray) THEN FreeCell ELSE hp[n]]]

\* a call of cmap_dispose: the bucket array and the map are freed with the
\* nodes, and no call follows
Dispose ==
    /\ Alive
    /\ LET gone == cmap_dispose(buckets, heap, numberOfBuckets)
       IN  /\ heap' = gone.heap
           /\ last' = [op |-> "dispose", key |-> <<>>, value |-> NULL,
                       cleaned |-> gone.cleaned]
    /\ buckets' = [x \in DOMAIN buckets |-> NULL]
    /\ cursor' = [i \in Traversals |-> Idle]
    /\ UNCHANGED <<numberOfBuckets, numberOfElements, shadow, calls, run>>

\* a get that adds the key it does not find, with a first value of 1
Get_InsertsMissing(key) ==
    /\ Alive
    /\ NoTraversalInFlight
    /\ LET found == cmap_get(buckets, heap, numberOfBuckets, key)
           new   == cmap_put(buckets, heap, numberOfBuckets,
                             numberOfElements, key, 1, "kept")
       IN  /\ last' = [op |-> "get", key |-> key,
                       value |-> ValueOf(buckets, heap, numberOfBuckets, key),
                       cleaned |-> <<>>]
           /\ IF found # NULL \/ calls >= MaxCalls
              THEN UNCHANGED cm
              ELSE /\ numberOfBuckets' = new.numberOfBuckets
                   /\ numberOfElements' = new.numberOfElements
                   /\ buckets' = new.buckets
                   /\ heap' = new.heap
    /\ UNCHANGED <<shadow, calls, cursor, run>>

\* a call of cmap_get: the client reads the value the result points to.
\* This client makes its cmap_get and cmap_count calls between traversals.
Get(key) ==
    /\ Alive
    /\ NoTraversalInFlight
    /\ last' = [op |-> "get", key |-> key,
                value |-> ValueOf(buckets, heap, numberOfBuckets, key),
                cleaned |-> <<>>]
    /\ UNCHANGED <<cm, shadow, calls, cursor, run>>

\* a call of cmap_count
Count ==
    /\ Alive
    /\ NoTraversalInFlight
    /\ last' = [op |-> "count", key |-> <<>>,
                value |-> cmap_count(numberOfElements), cleaned |-> <<>>]
    /\ UNCHANGED <<cm, shadow, calls, cursor, run>>

\* the traversal that was given count keys so far and now gets key: a NULL
\* ends the loop
Advance(count, key) ==
    IF key = NULL THEN Idle ELSE [given |-> count + 1, token |-> key]

\* traversal i starts: key = cmap_first(m)
First(i) ==
    /\ Alive
    /\ LET key == cmap_first(buckets, numberOfBuckets)
       IN  /\ cursor' = [cursor EXCEPT ![i] = Advance(0, key)]
           /\ last' = [op |-> "first", key |-> <<>>, value |-> key,
                       cleaned |-> <<>>]
    /\ UNCHANGED <<cm, shadow, calls, run>>

\* traversal i goes on: key = cmap_next(m, key), while key != NULL
NextKey(i) ==
    /\ Alive
    /\ cursor[i].token # NULL
    /\ LET key == cmap_next(buckets, heap, numberOfBuckets, cursor[i].token)
       IN  /\ cursor' = [cursor EXCEPT ![i] = Advance(@.given, key)]
           /\ last' = [op |-> "next", key |-> <<>>, value |-> key,
                       cleaned |-> <<>>]
    /\ UNCHANGED <<cm, shadow, calls, run>>

\* a client that makes every call of cmap.h
NextClient ==
    \/ \E key \in Keys, addr \in Vals, ub \in UBOutcomes : Put(key, addr, ub)
    \/ \E key \in Keys : Remove(key)
    \/ \E key \in Keys : Get(key)
    \/ Count
    \/ \E i \in Traversals : First(i)
    \/ \E i \in Traversals : NextKey(i)
    \/ Dispose

SpecClient == Init /\ [][NextClient]_vars

(* ----------------------- counting by get then set ---------------------- *)

\* one step of a client that counts occurrences of its keys: it reads the
\* count of key with cmap_get, taking 0 when the result is NULL, and puts
\* the count plus one
Increment(key, ub) ==
    Put(key, 1 + (IF Present(key) THEN Stored(key) ELSE 0), ub)

NextCount == \E key \in Keys, ub \in UBOutcomes : Increment(key, ub)

SpecCount == Init /\ [][NextCount]_vars

\* the sum of the values cmap_get returns for the keys of seq
RECURSIVE SumOfValues(_)
SumOfValues(seq) ==
    IF seq = <<>> THEN 0
    ELSE Stored(Head(seq)) + SumOfValues(Tail(seq))

(* ------------------------- the 20-key scenario ------------------------- *)

\* cmap_create(sizeof(int), 4, NULL)
InitScenario ==
    LET new == cmap_create(4)
    IN  /\ numberOfBuckets = new.numberOfBuckets
        /\ numberOfElements = new.numberOfElements
        /\ buckets = new.buckets
        /\ heap = [n \in ScenarioNodeIds |-> FreeCell]
        /\ shadow = [k \in ScenarioKeys |-> NULL]
        /\ last = [op |-> "create", key |-> <<>>, value |-> NULL,
                   cleaned |-> <<>>]
        /\ calls = 0
        /\ cursor = [i \in Traversals |-> Idle]
        /\ run = Running(4, 4)

\* the next put of the scenario: the key numbered calls, with its own index
\* as value
ScenarioPut(ub) ==
    /\ calls \in ScenarioIndices
    /\ PutCall(ScenarioKeyOf(calls), calls, ub)

\* once the keys are in, the remove of "17"
ScenarioRemove ==
    /\ calls = Cardinality(ScenarioIndices)
    /\ RemoveCall(ScenarioKeyOf(17))

\* the scenario's calls in their order, with cmap_get and cmap_count calls
\* at any point between them
NextScenario ==
    \/ \E ub \in UBOutcomes : ScenarioPut(ub)
    \/ ScenarioRemove
    \/ \E key \in ScenarioKeys : Get(key)
    \/ Count

SpecScenario == InitScenario /\ [][NextScenario]_vars

(* ------------------ creation and allocation failure -------------------- *)

\* the value sizes and the capacity hints clients pass to cmap_create
ValueSizes == {-1, 0, 4}

CreateHints == {-1, 0, 1, 2}

\* the malloc calls whose result the map code uses: the map struct and the
\* bucket array in cmap_create, the node and the next-link cell in
\* createNode, the new bucket array and the next-link cell in checkForRehash
AllocSites == {"map", "buckets", "node", "link", "newBuckets", "rehashLink"}

\* the assertions on the arguments of cmap_create
ValidArguments_ZeroSize(valuesz, capacity_hint) ==
    valuesz >= 0 /\ capacity_hint >= 0

ValidArguments(valuesz, capacity_hint) == valuesz > 0 /\ capacity_hint >= 0

\* how a cmap_create call ends when the malloc at site failed returns NULL
\* ("none": every malloc succeeds).  The struct is asserted to be non-NULL;
\* the bucket array is not, and the loop that follows stores NULL at
\* buckets + 0.
createEnding(valuesz, capacity_hint, failed) ==
    IF ~ValidArguments(valuesz, capacity_hint) THEN "assert"
    ELSE IF failed = "map" THEN "assert"
    ELSE IF failed = "buckets" THEN "nullwrite"
    ELSE "no"

\* the process before its cmap_create call
InitStart ==
    /\ numberOfBuckets = 0
    /\ numberOfElements = 0
    /\ buckets = <<>>
    /\ heap = [n \in NodeIds |-> FreeCell]
    /\ shadow = [k \in Keys |-> NULL]
    /\ last = [op |-> "start", key |-> <<>>, value |-> NULL, cleaned |-> <<>>]
    /\ calls = 0
    /\ cursor = [i \in Traversals |-> Idle]
    /\ run = Running(0, 0)

\* the process ends inside call op, as the record ended tells: by a failed
\* assertion ("assert") or with a store through the NULL that malloc
\* returned ("nullwrite").  Its memory goes with it.
Ends(ended, op, key) ==
    /\ run' = ended
    /\ last' = [op |-> op, key |-> key, value |-> NULL, cleaned |-> <<>>]
    /\ numberOfBuckets' = 0
    /\ numberOfElements' = 0
    /\ buckets' = <<>>
    /\ heap' = [n \in DOMAIN heap |-> FreeCell]
    /\ UNCHANGED <<shadow, calls, cursor>>

\* the call cmap_create(valuesz, capacity_hint, fn)
Create(valuesz, capacity_hint, failed) ==
    /\ last.op = "start"
    /\ LET ending == createEnding(valuesz, capacity_hint, failed)
           new    == cmap_create(capacity_hint)
       IN  IF ending = "no"
           THEN /\ numberOfBuckets' = new.numberOfBuckets
                /\ numberOfElements' = new.numberOfElements
                /\ buckets' = new.buckets
                /\ last' = [op |-> "create", key |-> <<>>, value |-> NULL,
                            cleaned |-> <<>>]
                /\ run' = Running(valuesz, capacity_hint)
                /\ UNCHANGED <<heap, shadow, calls, cursor>>
           ELSE Ends([ended |-> ending, valuesz |-> valuesz,
                      capacity_hint |-> capacity_hint,
                      failed |-> IF ValidArguments(valuesz, capacity_hint)
                                 THEN failed ELSE "none"],
                     "create", <<>>)

\* a call of cmap_put when the malloc at site failed returns NULL.  A key
\* that is not found takes createNode, which copies into the node and stores
\* through the link cell before cmap_put asserts that the node is not NULL;
\* a put that exceeds the load factor takes checkForRehash, which asserts
\* nothing about its allocations.
PutAlloc(key, addr, ub, failed) ==
    /\ calls < MaxCalls
    /\ Alive
    /\ NoTraversalInFlight
    /\ LET found == cmap_get(buckets, heap, numberOfBuckets, key) # NULL
           grows == LoadExceeded(IF found THEN numberOfElements
                                 ELSE numberOfElements + 1,
                                 numberOfBuckets)
       IN  IF \/ failed \in {"node", "link"} /\ ~found
              \/ failed \in {"newBuckets", "rehashLink"} /\ grows
           THEN Ends([run EXCEPT !.ended = "nullwrite", !.failed = failed],
                     "put", key)
           ELSE PutCall(key, addr, ub)

NextAlloc ==
    \/ \E valuesz \in ValueSizes, capacity_hint \in CreateHints,
          failed \in {"none"} \cup AllocSites :
           Create(valuesz, capacity_hint, failed)
    \/ \E key \in Keys, addr \in Vals, ub \in UBOutcomes,
          failed \in {"none"} \cup AllocSites :
           PutAlloc(key, addr, ub, failed)

SpecAlloc == InitStart /\ [][NextAlloc]_vars

(* ------------------- the HashMap class of hashmap.h -------------------- *)

\* the sizes clients construct a HashMap with
HashMapSizes == {1, 2, 3}

\* HashMap::HashMap(int size), for a size that passes assert(size > 0)
HashMap(size) ==
    [numberOfBuckets |-> size,
     numberOfElements |-> 0,
     buckets |-> [x \in 0..(size - 1) |-> NULL]]

\* HashMap::set followed by the growth step of cmap_put
HashMap_set_Growing(bk, hp, nb, ne, key, addr) ==
    LET new == cmap_put(bk, hp, nb, ne, key, addr, "kept")
    IN  [buckets |-> new.buckets, heap |-> new.heap,
         numberOfBuckets |-> new.numberOfBuckets,
         numberOfElements |-> new.numberOfElements]

\* HashMap::set: the pointer addr is copied over the value of the node that
\* holds key, or a node is made for it; numberOfBuckets is not assigned
HashMap_set(bk, hp, nb, ne, key, addr) ==
    LET put == putNode(bk, hp, nb, ne, key, addr)
    IN  [buckets |-> put.buckets, heap |-> put.heap,
         numberOfBuckets |-> nb,
         numberOfElements |-> put.numberOfElements]

\* HashMap::remove: the statements of cmap_remove without the cleanup call.
\* value is getValueFromNode of the node it then frees, given here as that
\* node, or NULL for a key that is not found.
HashMap_remove(bk, hp, nb, ne, key) ==
    LET gone == cmap_remove(bk, hp, nb, ne, key)
    IN  [buckets |-> gone.buckets, heap |-> gone.heap,
         numberOfElements |-> gone.numberOfElements,
         value |-> cmap_get(bk, hp, nb, key)]

getSize(ne) == ne

\* (double)numberOfElements / numberOfBuckets, as the fraction it rounds
getLoadFactor(ne, nb) == [num |-> ne, den |-> nb]

\* the map after HashMap m(size)
InitHashMap ==
    \E size \in HashMapSizes :
        LET new == HashMap(size)
        IN  /\ numberOfBuckets = new.numberOfBuckets
            /\ numberOfElements = new.numberOfElements
            /\ buckets = new.buckets
            /\ heap = [n \in NodeIds |-> FreeCell]
            /\ shadow = [k \in Keys |-> NULL]
            /\ last = [op |-> "create", key |-> <<>>, value |-> NULL,
                       cleaned |-> <<>>]
            /\ calls = 0
            /\ cursor = [i \in Traversals |-> Idle]
            /\ run = Running(8, size)

\* a call m.set(key, addr)
Set(key, addr) ==
    /\ calls < MaxCalls
    /\ calls' = calls + 1
    /\ LET new == HashMap_set(buckets, heap, numberOfBuckets,
                              numberOfElements, key, addr)
       IN  /\ numberOfBuckets' = new.numberOfBuckets
           /\ numberOfElements' = new.numberOfElements
           /\ buckets' = new.buckets
           /\ heap' = new.heap
    /\ last' = [op |-> "set", key |-> key, value |-> addr, cleaned |-> <<>>]
    /\ shadow' = [shadow EXCEPT ![key] = addr]
    /\ UNCHANGED <<cursor, run>>

\* a call m.remove(key); last.value is what it returns
RemoveKey(key) ==
    /\ calls < MaxCalls
    /\ calls' = calls + 1
    /\ LET new == HashMap_remove(buckets, heap, numberOfBuckets,
                                 numberOfElements, key)
       IN  /\ numberOfElements' = new.numberOfElements
           /\ buckets' = new.buckets
           /\ heap' = new.heap
           /\ last' = [op |-> "remove", key |-> key, value |-> new.value,
                       cleaned |-> <<>>]
    /\ shadow' = [shadow EXCEPT ![key] = NULL]
    /\ UNCHANGED <<numberOfBuckets, cursor, run>>

\* insert_test: a client that only sets
NextInsert == \E key \in Keys, addr \in Vals : Set(key, addr)

SpecInsert == InitHashMap /\ [][NextInsert]_vars

\* a client that sets and removes
NextHashMap ==
    \/ \E key \in Keys, addr \in Vals : Set(key, addr)
    \/ \E key \in Keys : RemoveKey(key)

SpecHashMap == InitHashMap /\ [][NextHashMap]_vars

(* --------------------------- calls of hash ----------------------------- *)

\* a call hash(s, nbuckets), as findKey and cmap_next make it; last.value is
\* what it returns
Hash(s, nbuckets) ==
    /\ calls < MaxCalls
    /\ calls' = calls + 1
    /\ last' = [op |-> "hash", key |-> s, value |-> hash(s, nbuckets),
                cleaned |-> <<>>, nbuckets |-> nbuckets]
    /\ UNCHANGED <<cm, shadow, cursor, run>>

NextHash == \E s \in HashStrings, nbuckets \in HashCounts : Hash(s, nbuckets)

SpecHash == InitStart /\ [][NextHash]_vars

(* ------------------------- calls with a null key ---------------------- *)

\* the key pointers a client passes: the address of a string, or NULL
KeyPointers ==
    { [null |-> FALSE, string |-> k] : k \in Keys }
       \cup { [null |-> TRUE, string |-> <<>>] }

\* a call of cmap_put, cmap_get or cmap_remove with key == NULL.  No
\* statement of the three tests key: each calls findKey, whose first
\* statement calls hash, whose loop condition reads s[0] through the NULL.
NullKeyCall(op) ==
    /\ Alive
    /\ NoTraversalInFlight
    /\ Ends([run EXCEPT !.ended = "nullread", !.failed = "key"], op, <<>>)

PutKeyed(key, addr, ub) ==
    IF key.null THEN NullKeyCall("put") ELSE Put(key.string, addr, ub)

GetKeyed(key) ==
    IF key.null THEN NullKeyCall("get") ELSE Get(key.string)

RemoveKeyed(key) ==
    IF key.null THEN NullKeyCall("remove") ELSE Remove(key.string)

NextKeyed ==
    \/ \E key \in KeyPointers, addr \in Vals, ub \in UBOutcomes :
           PutKeyed(key, addr, ub)
    \/ \E key \in KeyPointers : GetKeyed(key)
    \/ \E key \in KeyPointers : RemoveKeyed(key)

SpecKeyed == Init /\ [][NextKeyed]_vars

(* ------------------------ the whole life of a map ---------------------- *)

\* a call of cmap_put whose value is the number of the call, so that each
\* value copied into the map is told from every other one
LifePut(key, ub) == calls < MaxCalls /\ PutCall(key, calls + 1, ub)

\* a client of a map with a cleanup function: puts and removes in any order,
\* then cmap_dispose
NextLife ==
    \/ \E key \in Keys, ub \in UBOutcomes : LifePut(key, ub)
    \/ \E key \in Keys : Remove(key)
    \/ Dispose

SpecLife == Init /\ [][NextLife]_vars

(* -------------------- a put followed by its remove -------------------- *)

\* cmap_put(m, key, addr) immediately followed by cmap_remove(m, key)
PutRemove(key, addr, ub) ==
    /\ calls + 1 < MaxCalls
    /\ Alive
    /\ NoTraversalInFlight
    /\ calls' = calls + 2
    /\ LET put  == cmap_put(buckets, heap, numberOfBuckets, numberOfElements,
                            key, addr, ub)
           gone == cmap_remove(put.buckets, put.heap, put.numberOfBuckets,
                               put.numberOfElements, key)
       IN  /\ numberOfBuckets' = put.numberOfBuckets
           /\ numberOfElements' = gone.numberOfElements
           /\ buckets' = gone.buckets
           /\ heap' = gone.heap
           /\ last' = [op |-> "putremove", key |-> key, value |-> addr,
                       cleaned |-> put.cleaned \o gone.cleaned]
    /\ shadow' = [shadow EXCEPT ![key] = NULL]
    /\ cursor' = [i \in Traversals |-> Idle]
    /\ UNCHANGED run

\* a client that puts and removes, and puts a key to remove it at once
NextRoundTrip ==
    \/ \E key \in Keys, addr \in Vals, ub \in UBOutcomes : Put(key, addr, ub)
    \/ \E key \in Keys : Remove(key)
    \/ \E key \in Keys, addr \in Vals, ub \in UBOutcomes :
           PutRemove(key, addr, ub)

SpecRoundTrip == Init /\ [][NextRoundTrip]_vars

(* ------------------------------- claims -------------------------------- *)

\* C1: after any sequence of cmap_put and cmap_remove calls, cmap_get of
\* every key whose most recent put has not been followed by a remove of it
\* returns the value of that most recent put.
C1_RoundTrip ==
    \A k \in Keys : shadow[k] # NULL => Stored(k) = shadow[k]

\* C2: a cmap_remove of a present key leaves every other key that was
\* retrievable before the call retrievable with the same value, wherever the
\* removed entry sits in its chain.
C2_RemoveKeepsOthers ==
    [][ (last'.op = "remove" /\ Present(last'.key))
        => \A k \in Keys \ {last'.key} :
              Present(k) =>
                 ValueOf(buckets', heap', numberOfBuckets', k) = Stored(k)
      ]_vars

\* C3: in every reachable state numberOfElements equals the number of entry
\* nodes reachable by walking every bucket's chain.
C3_CountMatchesChains ==
    cmap_count(numberOfElements) = Len(AllEntries)

\* C4: after any sequence of put and remove calls count() equals the number
\* of distinct keys that have been put and not removed since their last put.
C4_CountMatchesHistory ==
    cmap_count(numberOfElements) = Cardinality(PutAndNotRemoved)

\* C5: in every reachable state no two entry nodes of the map, across all
\* buckets and chains, hold the same key string.
C5_KeyUniqueness ==
    \A i, j \in 1..Len(AllEntries) :
        i # j => getKeyFromNode(heap, AllEntries[i])
                    # getKeyFromNode(heap, AllEntries[j])

\* C5 witness: after a rehash, an overwriting put has run on a map that
\* holds at least two entries.
C5_Witness ==
    /\ numberOfBuckets > 2
    /\ last.op = "put"
    /\ last.cleaned # <<>>
    /\ Len(AllEntries) >= 2

C7_RemoveAbsentNoOp ==
    [][ (last'.op = "remove" /\ ~Present(last'.key))
        => /\ UNCHANGED <<numberOfBuckets, numberOfElements, buckets, heap>>
           /\ last'.cleaned = <<>>
      ]_vars

\* C7 witness: a remove of an absent key has run against a bucket whose
\* chain is not empty.
C7_Witness ==
    /\ last.op = "remove"
    /\ last.cleaned = <<>>
    /\ ~Present(last.key)
    /\ buckets[hash(last.key, numberOfBuckets)] # NULL

\* C8: a cmap_put of a key already present overwrites the value in the same
\* node, invokes cleanup exactly once, on the old value, and leaves count()
\* unchanged.
C8_PutOverwrites ==
    [][ (last'.op = "put" /\ Present(last'.key))
        => /\ cmap_get(buckets', heap', numberOfBuckets', last'.key)
                = cmap_get(buckets, heap, numberOfBuckets, last'.key)
           /\ ValueOf(buckets', heap', numberOfBuckets', last'.key)
                = last'.value
           /\ last'.cleaned = <<Stored(last'.key)>>
           /\ numberOfElements' = numberOfElements
      ]_vars

\* C8 witness: a put has just replaced a value by a different one.
C8_Witness ==
    /\ last.op = "put"
    /\ Len(last.cleaned) = 1
    /\ last.cleaned[1] # last.value
    /\ Stored(last.key) = last.value

\* C9: a traversal by cmap_first and cmap_next produces exactly the keys that
\* were put and not removed, each exactly once.
C9_IterationComplete ==
    /\ Range(Traversal) = PutAndNotRemoved
    /\ Len(Traversal) = Cardinality(PutAndNotRemoved)

\* C10: whenever a cmap_put triggers a rehash, count() after the put is what
\* it would have been without the rehash, and every pair stored before the
\* rehash and the pair just put are retrievable with the same value.
C10_GrowthPreservesData ==
    [][ (last'.op = "put" /\ numberOfBuckets' # numberOfBuckets)
        => /\ numberOfElements'
                = numberOfElements + (IF Present(last'.key) THEN 0 ELSE 1)
           /\ ValueOf(buckets', heap', numberOfBuckets', last'.key)
                = last'.value
           /\ \A k \in Keys \ {last'.key} :
                 Present(k) =>
                    ValueOf(buckets', heap', numberOfBuckets', k) = Stored(k)
      ]_vars

\* C11: a cmap_put changes numberOfBuckets if and only if, after the put's
\* insertion, numberOfElements / numberOfBuckets is strictly greater than
\* 1.5; a load of exactly 1.5 does not trigger a rehash.
C11_RehashTrigger ==
    [][ last'.op = "put"
        => ( (numberOfBuckets' # numberOfBuckets)
             <=> (2 * numberOfElements' > 3 * numberOfBuckets) )
      ]_vars

\* C11 witness: a put has just brought the load to exactly 1.5.
C11_Witness ==
    /\ last.op = "put"
    /\ last.cleaned = <<>>
    /\ 2 * numberOfElements = 3 * numberOfBuckets

\* C14: cmap_first returns NULL exactly when cmap_count returns 0.
C14_FirstNullIffEmpty ==
    (cmap_first(buckets, numberOfBuckets) = NULL)
        <=> (cmap_count(numberOfElements) = 0)

\* C16: once every key that was put has been removed, one remove call per
\* key in any order of the keys, the element count is 0 and cmap_first
\* returns no key.
C16_RemoveAllEmpties ==
    (last.op = "remove" /\ PutAndNotRemoved = {})
        => /\ cmap_count(numberOfElements) = 0
           /\ cmap_first(buckets, numberOfBuckets) = NULL

\* C17: cmap_get returns NULL exactly when the key is absent (never put, or
\* removed since its last put) and a value reference otherwise.
C17_GetNullIffAbsent ==
    \A k \in Keys :
        (cmap_get(buckets, heap, numberOfBuckets, k) = NULL)
            <=> (shadow[k] = NULL)

\* C12: when a rehash happens the new bucket count is exactly 3 * old + 1,
\* and numberOfBuckets never decreases: only a cmap_put changes it, never
\* cmap_remove, cmap_get, cmap_count, cmap_first or cmap_next.
C12_BucketsOnlyGrow ==
    [][ /\ numberOfBuckets' >= numberOfBuckets
        /\ numberOfBuckets' # numberOfBuckets
             => /\ last'.op = "put"
                /\ numberOfBuckets' = 3 * numberOfBuckets + 1
      ]_vars

\* C12 witness: after a rehash, a remove and then a traversal have run and
\* the bucket array still has its grown size.
C12_Witness ==
    /\ numberOfBuckets \in {4, 7}
    /\ last.op = "next"
    /\ \E k \in Keys : shadow[k] = NULL /\ ~Present(k)
    /\ calls >= 3

\* the key and the state of traversal i that a call of cmap_first or
\* cmap_next by it must produce, single being the keys of a traversal that
\* runs alone
OnCourse(i, single) ==
    LET place == IF last'.op = "first" THEN 1 ELSE cursor[i].given + 1
    IN  /\ last'.op = "next" => cursor[i].token # NULL
        /\ IF place > Len(single)
           THEN /\ last'.value = NULL
                /\ cursor'[i] = Idle
           ELSE /\ last'.value # NULL
                /\ getKeyFromNode(heap, last'.value) = single[place]
                /\ cursor'[i] = [given |-> place, token |-> last'.value]

\* C13: with no mutation in between, two traversals whose cmap_first and
\* cmap_next calls are interleaved in any order each get the keys a single
\* traversal run alone gets, in the same order; a call by one traversal
\* leaves the other where it was, and no call changes the map.
C13_TraversalsIndependent ==
    [][ last'.op \in {"first", "next"}
        => /\ UNCHANGED cm
           /\ \E i \in Traversals :
                 /\ OnCourse(i, Traversal)
                 /\ \A j \in Traversals \ {i} : cursor'[j] = cursor[j]
      ]_vars

\* C13 witness: both traversals are in flight at different keys, the first
\* one further on, and the last call was made by the second one.
C13_Witness ==
    /\ last.op \in {"first", "next"}
    /\ cursor[1].given > cursor[2].given
    /\ cursor[2].given >= 1
    /\ last.value = cursor[2].token

\* the number of positions of seq that hold v
Occurrences(seq, v) == Cardinality({ x \in 1..Len(seq) : seq[x] = v })

\* C15: inserting N distinct keys into a new map and then calling
\* cmap_dispose invokes the cleanup function exactly N times, once on the
\* value of each entry.
C15_DisposeCleansAll ==
    [][ (last'.op = "dispose" /\ Cardinality(PutAndNotRemoved) = calls)
        => /\ Len(last'.cleaned) = calls
           /\ \A v \in Vals :
                 Occurrences(last'.cleaned, v)
                    = Cardinality({ k \in Keys : shadow[k] = v })
      ]_vars

\* C18: cmap_get changes no part of the map, and what it returns is what a
\* repetition of the call returns.
C18_GetIsPure ==
    [][ last'.op = "get"
        => /\ UNCHANGED cm
           /\ last'.value
                = ValueOf(buckets', heap', numberOfBuckets', last'.key)
           /\ (last.op = "get" /\ last.key = last'.key)
                 => last'.value = last.value
      ]_vars

\* C18 witness: a get has returned the value of a key of a map that holds
\* several entries and has grown.
C18_Witness ==
    /\ last.op = "get"
    /\ last.value # NULL
    /\ Len(AllEntries) >= 2
    /\ numberOfBuckets > 2

\* C19: if every put stores 1 + the value cmap_get returned for the key
\* just before (0 when it returned NULL), then after any M such calls the
\* sum of cmap_get over the keys of a full traversal is M.
C19_CountingByGetThenSet ==
    SumOfValues(Traversal) = calls

\* C20: on a map created with capacity_hint 4, after the puts of the keys
\* "0" .. "19", each with its index as value, count() is 20, the bucket
\* count is greater than 4 and get of "17" returns 17; after the remove of
\* "17", count() is 19 and get of "17" returns NULL.
C20_Scenario ==
    LET found == cmap_get(buckets, heap, numberOfBuckets, ScenarioKeyOf(17))
    IN  /\ calls = 20
           => /\ cmap_count(numberOfElements) = 20
              /\ numberOfBuckets > 4
              /\ found # NULL
              /\ getValueFromNode(heap, found) = 17
        /\ calls = 21
           => /\ cmap_count(numberOfElements) = 19
              /\ found = NULL

\* C21: a cmap_create call with valuesz <= 0 or capacity_hint < 0 ends in a
\* failed assertion and leaves no map; a call with valid arguments whose
\* allocations succeed returns a map whose count is 0 and whose buckets are
\* all empty.
C21_CreateValidates ==
    last.op = "create" =>
        /\ (run.valuesz <= 0 \/ run.capacity_hint < 0)
              => /\ run.ended = "assert"
                 /\ numberOfBuckets = 0
                 /\ buckets = <<>>
        /\ (run.valuesz > 0 /\ run.capacity_hint >= 0 /\ run.failed = "none")
              => /\ run.ended = "no"
                 /\ cmap_count(numberOfElements) = 0
                 /\ numberOfBuckets > 0
                 /\ DOMAIN buckets = 0..(numberOfBuckets - 1)
                 /\ \A x \in DOMAIN buckets : buckets[x] = NULL

C21_Witness ==
    /\ last.op = "create"
    /\ run.valuesz = 0
    /\ run.capacity_hint >= 0
    /\ run.ended = "assert"

\* C22: when a malloc of the map code returns NULL (the map struct, the
\* bucket array at create or at rehash, a new entry node), the operation
\* ends with a failed assertion, and nothing is stored through or read from
\* the NULL.
C22_AllocationFailureAsserts ==
    run.failed # "none" => run.ended = "assert"

\* C29: cmap_create with capacity_hint 0 returns a map of 199 buckets, and
\* with capacity_hint c > 0 a map of exactly c buckets.
C29_InitialBuckets ==
    last.op = "create" /\ run.ended = "no" =>
        /\ numberOfBuckets = (IF run.capacity_hint = 0 THEN 199
                              ELSE run.capacity_hint)
        /\ DOMAIN buckets = 0..(numberOfBuckets - 1)

C29_Witness ==
    /\ last.op = "create"
    /\ run.ended = "no"
    /\ run.capacity_hint = 0
    /\ numberOfBuckets = 199

\* C23: the HashMap class never changes numberOfBuckets: after a client has
\* set n distinct keys in a map constructed with b buckets, getSize() is n
\* and getLoadFactor() is n / b, whatever n is.
C23_FixedSize ==
    LET n == Cardinality({k \in Keys : shadow[k] # NULL})
        b == run.capacity_hint
    IN  /\ numberOfBuckets = b
        /\ getSize(numberOfElements) = n
        /\ getLoadFactor(numberOfElements, numberOfBuckets).num * b
              = n * getLoadFactor(numberOfElements, numberOfBuckets).den

C23_Witness ==
    /\ last.op = "set"
    /\ run.capacity_hint = 1
    /\ getSize(numberOfElements) = 4
    /\ numberOfBuckets = 1

\* C28: HashMap::remove returns NULL for a key that is not found; for a key
\* that is found it returns a reference to the value that was associated
\* with the key, and that reference still denotes the value after the call:
\* it does not point into storage the call has freed.
C28_RemoveReturnsValue ==
    [][\A key \in Keys :
         RemoveKey(key) =>
           LET found == cmap_get(buckets, heap, numberOfBuckets, key)
           IN  IF found = NULL THEN last'.value = NULL
               ELSE /\ last'.value # NULL
                    /\ heap'[last'.value].live
                    /\ getValueFromNode(heap', last'.value)
                          = getValueFromNode(heap, found)]_vars

\* the chain of bucket x, as the nodes met from its head on
ChainOf(x) == chainFrom(heap, buckets[x], MaxCalls + 1)

\* the bucket whose chain node lies in
BucketOf(node) ==
    CHOOSE x \in 0..(numberOfBuckets - 1) : node \in Range(ChainOf(x))

Lowest(indices) == CHOOSE x \in indices : \A y \in indices : x <= y

\* C24: in every reachable state every entry node lies in the chain of
\* bucket hash(key, numberOfBuckets) for the current numberOfBuckets, also
\* right after a rehash; so the bucket cmap_next computes from the key a
\* traversal holds is the bucket whose chain that entry is in.
C24_BucketPlacement ==
    /\ \A x \in 0..(numberOfBuckets - 1) :
          \A n \in Range(ChainOf(x)) :
              hash(getKeyFromNode(heap, n), numberOfBuckets) = x
    /\ \A i \in Traversals :
          cursor[i].token # NULL
             => cursor[i].token
                   \in Range(ChainOf(hash(getKeyFromNode(heap, cursor[i].token),
                                          numberOfBuckets)))

\* C24 witness: the map has grown, a bucket other than the first holds a
\* chain of two, and a traversal holds the second entry of that chain.
C24_Witness ==
    /\ numberOfBuckets > 2
    /\ \E x \in 1..(numberOfBuckets - 1), i \in Traversals :
          /\ Len(ChainOf(x)) = 2
          /\ cursor[i].token = ChainOf(x)[2]

\* C25: cmap_first returns the key at the head of the lowest-indexed bucket
\* that is not empty (NULL if there is none); cmap_next(prev) returns the
\* key of prev's successor in its chain if it has one, otherwise the head
\* key of the next higher-indexed bucket that is not empty, otherwise NULL;
\* the bucket index of a key returned is never below that of prev.
C25_BucketThenChain ==
    [][ last'.op \in {"first", "next"} =>
          \E i \in Traversals :
             LET filled == { x \in 0..(numberOfBuckets - 1) :
                               buckets[x] # NULL }
                 prev   == cursor[i].token
                 later  == { x \in filled : x > BucketOf(prev) }
                 key    == last'.value
             IN  /\ cursor'[i] = Advance(IF last'.op = "first" THEN 0
                                         ELSE cursor[i].given, key)
                 /\ \A j \in Traversals \ {i} : cursor'[j] = cursor[j]
                 /\ IF last'.op = "first"
                    THEN key = (IF filled = {} THEN NULL
                                ELSE buckets[Lowest(filled)])
                    ELSE /\ prev # NULL
                         /\ key = (IF heap[prev].next # NULL
                                   THEN heap[prev].next
                                   ELSE IF later = {} THEN NULL
                                   ELSE buckets[Lowest(later)])
                         /\ key # NULL => BucketOf(key) >= BucketOf(prev)
      ]_vars

\* C25 witness: a traversal has just been given the head key of a later
\* bucket, having held the last key of a chain of two in an earlier bucket.
C25_Witness ==
    /\ last.op = "next"
    /\ last.value # NULL
    /\ \E x \in 0..(numberOfBuckets - 1) :
          /\ Len(ChainOf(x)) = 2
          /\ x < BucketOf(last.value)
          /\ \A y \in (x + 1)..(BucketOf(last.value) - 1) : buckets[y] = NULL
    /\ buckets[BucketOf(last.value)] = last.value

\* C26: a traversal that starts with cmap_first and passes each result to
\* cmap_next, with no mutation in between, is given NULL after at most
\* count() calls of cmap_next: it never holds more keys than count().
C26_TraversalBounded ==
    \A i \in Traversals :
        cursor[i].token # NULL
           => cursor[i].given <= cmap_count(numberOfElements)

\* C26 witness: a traversal of a map of three has been given three keys; the
\* third call of cmap_next is the one that returns NULL.
C26_Witness ==
    \E i \in Traversals :
        /\ cmap_count(numberOfElements) = 3
        /\ cursor[i].given = 3
        /\ cursor[i].token # NULL
        /\ cmap_next(buckets, heap, numberOfBuckets, cursor[i].token) = NULL

\* C27: in remove, on the head-of-chain path and on the other path, the next
\* link and every other field of the node that is freed are read before the
\* free and never after it, and the chain is not repaired from freed
\* storage: the link stored is the one the node held while it was live, and
\* no chain leads to a freed node.
C27_ReadBeforeFree ==
    [][ last'.op = "remove" =>
          LET accesses == removeAccesses(buckets, heap, numberOfBuckets,
                                         last'.key)
              frees    == { i \in 1..Len(accesses) : accesses[i].op = "free" }
              freed    == { n \in DOMAIN heap : heap[n].live /\ ~heap'[n].live }
              r        == findKey(buckets, heap, numberOfBuckets, last'.key)
              repaired == IF r.prevKeyBucket = NullSlot
                          THEN getBucketAtIndex(hash(last'.key,
                                                     numberOfBuckets))
                          ELSE r.prevKeyBucket
          IN  /\ \A i \in frees : \A j \in (i + 1)..Len(accesses) :
                    accesses[j].node # accesses[i].node
              /\ freed = { accesses[i].node : i \in frees }
              /\ \A n \in freed :
                    Deref(buckets', heap', repaired) = heap[n].next
              /\ \A x \in 0..(numberOfBuckets - 1) :
                    \A n \in Range(chainFrom(heap', buckets'[x], MaxCalls + 1)) :
                        heap'[n].live
      ]_vars

\* C27 witness: a remove has just taken the path for a node that is not at
\* the head of its chain, in a map that has not grown.
C27_Witness ==
    /\ last.op = "remove"
    /\ last.cleaned # <<>>
    /\ numberOfBuckets = run.capacity_hint
    /\ \E n \in DOMAIN heap : heap[n].live /\ n \notin Range(AllEntries)

\* a 64-bit number as 16 hexadecimal digits, least significant first
Zero64 == [i \in 1..16 |-> 0]

\* digits k..16 of (a * b + c) modulo 2^64, for a 64-bit a, a b below 2^27
\* and an integer c
RECURSIVE ScaleAdd(_, _, _, _)
ScaleAdd(a, b, k, c) ==
    IF k > 16 THEN <<>>
    ELSE LET t == a[k] * b + c
         IN  <<t % 16>> \o ScaleAdd(a, b, k + 1, t \div 16)

\* a shifted left by k hexadecimal digits, modulo 2^64
ShiftLeft(a, k) == [i \in 1..16 |-> IF i <= k THEN 0 ELSE a[i - k]]

\* digits k..16 of (a + b + c) modulo 2^64
RECURSIVE Add64(_, _, _, _)
Add64(a, b, k, c) ==
    IF k > 16 THEN <<>>
    ELSE LET t == a[k] + b[k] + c
         IN  <<t % 16>> \o Add64(a, b, k + 1, t \div 16)

\* h * 2630849305 + c modulo 2^64, the multiplier split by decimal places:
\* 2630849305 = 26308 * 100000 + 49305
TimesMultiplierPlus(h, c) ==
    CHOOSE sum \in
        { Add64(high, low, 1, 0) :
            high \in { ScaleAdd(part, 100000, 1, 0) :
                         part \in { ScaleAdd(h, 26308, 1, 0) } },
            low \in { ScaleAdd(h, 49305, 1, c) } } :
        TRUE

\* the accumulation h := h * 2630849305 + s[i] from h = 0, modulo 2^64
RECURSIVE Accumulation(_, _, _)
Accumulation(s, i, h) ==
    IF i > Len(s) THEN h
    ELSE CHOOSE h64 \in
             { Accumulation(s, i + 1, next) :
                 next \in { TimesMultiplierPlus(h, s[i]) } } :
             TRUE

\* the accumulation for each string hash is called with
Accumulated == [s \in HashStrings |-> Accumulation(s, 1, Zero64)]

\* a 64-bit number modulo n
RECURSIVE Residue(_, _, _, _)
Residue(h, n, k, r) ==
    IF k < 1 THEN r ELSE Residue(h, n, k - 1, (r * 16 + h[k]) % n)

C31_NullKeyAsserts ==
    run.failed = "key" => run.ended = "assert"

\* the values held in the nodes that have not been freed
Held(hp) == { hp[n].value : n \in { m \in DOMAIN hp : hp[m].live } }

\* C32: every value copied into the map by a cmap_put has the cleanup
\* function invoked on it exactly once by the time cmap_dispose returns, for
\* any puts and removes before the dispose: each call cleans, once each,
\* exactly the values that leave the map with it, and no value is left when
\* cmap_dispose returns.
C32_CleanupExactlyOnce ==
    [][ /\ \A i, j \in 1..Len(last'.cleaned) :
              i # j => last'.cleaned[i] # last'.cleaned[j]
        /\ Range(last'.cleaned) = Held(heap) \ Held(heap')
        /\ last'.op = "dispose" => Held(heap') = {}
      ]_vars

\* the contents of a map: the key and the value of every entry in a chain
Contents(bk, hp, nb) ==
    { <<getKeyFromNode(hp, n), getValueFromNode(hp, n)>> :
         n \in Range(chainsFrom(bk, hp, nb, 0)) }

\* C33: for a key k that is not in the map, cmap_put(k, v) immediately
\* followed by cmap_remove(k) restores the contents when the put triggered
\* no rehash: the same keys with the same values and the same count(),
\* whatever other keys share k's bucket.
C33_PutRemoveRestores ==
    [][ ( /\ last'.op = "putremove"
          /\ cmap_get(buckets, heap, numberOfBuckets, last'.key) = NULL
          /\ numberOfBuckets' = numberOfBuckets )
        => /\ Contents(buckets', heap', numberOfBuckets')
                 = Contents(buckets, heap, numberOfBuckets)
           /\ cmap_count(numberOfElements') = cmap_count(numberOfElements)
      ]_vars

\* C34: after every completed operation numberOfElements is at most 1.5
\* times numberOfBuckets, and numberOfBuckets is at least 1: the one rehash
\* step of a put, to 3 * old + 1 buckets, restores the bound.
C34_LoadFactorBound ==
    /\ 2 * numberOfElements <= 3 * numberOfBuckets
    /\ numberOfBuckets >= 1

\* C34 witness: the put of a second key into a map of one bucket has just
\* taken it to four buckets: without the step the load would be 2.
C34_Witness ==
    /\ last.op = "put"
    /\ run.capacity_hint = 1
    /\ numberOfBuckets = 4
    /\ numberOfElements = 2

\* C35: in every reachable state, also right after a rehash, every bucket
\* chain is finite, acyclic and ends in NULL, and no entry node is reached
\* from two buckets or twice in one chain.
C35_ChainsWellFormed ==
    /\ Len(AllEntries) <= Cardinality(DOMAIN heap)
    /\ \A i, j \in 1..Len(AllEntries) :
          i # j => AllEntries[i] # AllEntries[j]
    /\ \A x \in 0..(numberOfBuckets - 1) :
          LET chain == chainFrom(heap, buckets[x], Cardinality(DOMAIN heap) + 1)
          IN  /\ \A i \in 1..Len(chain) : heap[chain[i]].live
              /\ chain # <<>> => heap[chain[Len(chain)]].next = NULL
              /\ \A i \in 1..(Len(chain) - 1) :
                    heap[chain[i]].next = chain[i + 1]

\* C35 witness: a rehash has just moved a chain of two into two buckets.
C35_Witness ==
    /\ last.op = "put"
    /\ numberOfBuckets > run.capacity_hint
    /\ \E x, y \in 0..(numberOfBuckets - 1) :
          /\ x # y
          /\ Len(chainFrom(heap, buckets[x], MaxCalls + 1)) = 1
          /\ Len(chainFrom(heap, buckets[y], MaxCalls + 1)) >= 1

\* C36: a cmap_put of a key that is present triggers no rehash and changes
\* no structure: numberOfBuckets, the count, the buckets, every node's next
\* link and key, and the value of every other entry stay as they were; the
\* test of checkForRehash runs after the overwrite and finds the load within
\* the bound.
C36_OverwriteKeepsStructure ==
    [][ (last'.op = "put"
         /\ cmap_get(buckets, heap, numberOfBuckets, last'.key) # NULL)
        => LET found == cmap_get(buckets, heap, numberOfBuckets, last'.key)
           IN  /\ numberOfBuckets' = numberOfBuckets
               /\ numberOfElements' = numberOfElements
               /\ buckets' = buckets
               /\ 2 * numberOfElements' <= 3 * numberOfBuckets'
               /\ \A n \in DOMAIN heap :
                     /\ heap'[n].live = heap[n].live
                     /\ heap'[n].next = heap[n].next
                     /\ heap'[n].key = heap[n].key
                     /\ n # found => heap'[n].value = heap[n].value
               /\ heap'[found].value = last'.value
      ]_vars

\* C36 witness: a put has just replaced a value in a map whose load is
\* exactly 1.5, three entries in two buckets.
C36_Witness ==
    /\ last.op = "put"
    /\ Len(last.cleaned) = 1
    /\ numberOfBuckets = 2
    /\ numberOfElements = 3

\* C37: in every state that put and remove calls reach, the nodes that
\* cmap_dispose collects by walking all chains are no more than
\* numberOfElements, the length of its temporary array: no store goes past
\* the end of the array.
C37_DisposeArrayBound ==
    Len(chainsFrom(buckets, heap, numberOfBuckets, 0))
       <= cmap_count(numberOfElements)

\* C37 witness: cmap_dispose has just collected and cleaned three nodes of a
\* map of three: its array was filled to the last place.
C37_Witness ==
    /\ last.op = "dispose"
    /\ numberOfElements = 3
    /\ Len(last.cleaned) = 3
====
